---- MODULE Spec2Model ----
(***************************************************************************)
(* A model of rbdbutil.py: the RBDB reader/writer of a Rockbox tag-cache   *)
(* database (one index file and nine string-table files), the Track key    *)
(* normalisers stdtrack/strstd, the LastFM ledger and the --import-counts  *)
(* run of the main program.                                                *)
(*                                                                         *)
(* Representation.  A byte buffer (bytes/bytearray) is a sequence of       *)
(* integers 0..255; the byte at Python offset k is element k+1.  A str is  *)
(* a sequence of code points.  The                                         *)
(* dictionary key "idx" of RBDB.datas is written -1 so that the ten keys   *)
(* are comparable with one another.  Integers stay below 2^31: every       *)
(* 32-bit field of the modelled catalogs has a top byte below 128.         *)
(* A raised exception is a value [exc |-> name, ...] returned by the       *)
(* operator that models the raising function.                              *)
(***************************************************************************)
EXTENDS Integers, Sequences, FiniteSets, TLC

VARIABLES
  disk,        \* the files under --dbdir: file index -> bytes
  datas,       \* RBDB.datas: file index -> bytearray
  checksums,   \* RBDB.checksums: file index -> md5 digest taken at load
  cur_offset,  \* RBDB.cur_offset
  lastfm,      \* LastFM.data: key -> [count]
  done,        \* the import loop's counters
  missing,
  pc,          \* position of the main program / which specification runs
  loaded,      \* history: the buffers as read at load
  pre,         \* history: [datas, cur_offset, done, missing] before the last call
  call,        \* history: the last call, [op, index, field, value]
  result,      \* history: what the last call returned or raised
  written,     \* history: the files RBDB.overwrite has been called on
  nupdates,    \* history: number of update_numeric_field/update_entry calls
  norm         \* the normaliser harness: [phase, inp, out, prev]

vars == <<disk, datas, checksums, cur_offset, lastfm, done, missing, pc,
          loaded, pre, call, result, written, nupdates, norm>>

----------------------------------------------------------------------------
\* Bounds of the model.

\* Catalogs hold 0..MaxEntries entries.
MaxEntries == 2
\* At most MaxUpdates update calls in one run of the RBDB interface.
MaxUpdates == 1
\* The ledger is built from at most MaxRows rows.
MaxRows == 2
\* Titles given to stdtrack have at most MaxTitleLen characters.
MaxTitleLen == 6
\* Strings given to strstd are made of at most MaxTokens tokens.
MaxTokens == 3

----------------------------------------------------------------------------
\* Sequences.

Min(a, b) == IF a <= b THEN a ELSE b

Max(a, b) == IF a >= b THEN a ELSE b

\* Python's buf[a:b] for 0 <= a: clamped to the buffer, never raising.
Slice(buf, a, b) ==
  LET lo == Min(a, Len(buf))
      hi == Min(b, Len(buf))
  IN  IF hi <= lo THEN <<>> ELSE SubSeq(buf, lo + 1, hi)

RECURSIVE Concat(_)
Concat(ss) == IF ss = <<>> THEN <<>> ELSE Head(ss) \o Concat(Tail(ss))

\* Whether p is a prefix of s.
StartsWith(s, p) == Len(s) >= Len(p) /\ SubSeq(s, 1, Len(p)) = p

\* All sequences over S of length 0..n.
RECURSIVE SeqsUpTo(_, _)
SeqsUpTo(S, n) ==
  IF n = 0 THEN {<<>>}
  ELSE LET shorter == SeqsUpTo(S, n - 1)
       IN  shorter \cup {Append(s, x) : s \in shorter, x \in S}

----------------------------------------------------------------------------
\* Integers and bytes (rbdbutil.py:10-11).

\* int.from_bytes(x, byteorder='little'), for a slice of any length.
RECURSIVE as_int(_)
as_int(x) == IF x = <<>> THEN 0 ELSE Head(x) + 256 * as_int(Tail(x))

\* Whether int.to_bytes(x, length=4) succeeds (else OverflowError).
as_bytes_fits(x) == x >= 0 /\ x \div 65536 < 65536

\* int.to_bytes(x, byteorder='little', length=4).
as_bytes(x) ==
  << x % 256, (x \div 256) % 256, (x \div 65536) % 256, (x \div 16777216) % 256 >>

----------------------------------------------------------------------------
\* Characters of the source's string literals, as code points.

CH == [ apos |-> 39, amp |-> 38, quest |-> 63, comma |-> 44, hyphen |-> 45,
        bang |-> 33, period |-> 46, backtick |-> 96, space |-> 32,
        lparen |-> 40, rparen |-> 41,
        a_acute |-> 225, e_acute |-> 233, i_acute |-> 237,
        o_acute |-> 243, u_acute |-> 250,
        a |-> 97, e |-> 101, i |-> 105, o |-> 111, u |-> 117,
        n |-> 110, d |-> 100,
        zero |-> 48, nine |-> 57, three |-> 51,
        T |-> 84, h |-> 104, r |-> 114, t |-> 116, y |-> 121 ]

Thirty == << CH.T, CH.h, CH.i, CH.r, CH.t, CH.y >>

----------------------------------------------------------------------------
\* Python str methods used by the source, on sequences of code points.

\* str.replace(old, new) for a non-empty old: leftmost, non-overlapping.
RECURSIVE Replace(_, _, _)
Replace(s, old, new) ==
  IF Len(s) < Len(old) THEN s
  ELSE IF StartsWith(s, old)
       THEN new \o Replace(SubSeq(s, Len(old) + 1, Len(s)), old, new)
       ELSE <<Head(s)>> \o Replace(Tail(s), old, new)

\* Index of the first occurrence of character c in s, or 0.
RECURSIVE IndexOf(_, _)
IndexOf(s, c) ==
  IF s = <<>> THEN 0
  ELSE IF Head(s) = c THEN 1
  ELSE LET k == IndexOf(Tail(s), c) IN IF k = 0 THEN 0 ELSE k + 1

\* str.split(c) for a one-character separator: a non-empty list of pieces.
RECURSIVE Split(_, _)
Split(s, c) ==
  LET k == IndexOf(s, c)
  IN  IF k = 0 THEN <<s>>
      ELSE <<SubSeq(s, 1, k - 1)>> \o Split(SubSeq(s, k + 1, Len(s)), c)

\* sep.join(pieces).
RECURSIVE Join(_, _)
Join(sep, pieces) ==
  IF pieces = <<>> THEN <<>>
  ELSE IF Len(pieces) = 1 THEN pieces[1]
  ELSE pieces[1] \o sep \o Join(sep, Tail(pieces))

\* str.lower() on one code point of the Latin-1 range: A-Z and the capitals
\* U+00C0..U+00DE except the multiplication sign map to the letter 32 above.
lower_char(c) ==
  IF (c >= 65 /\ c <= 90) \/ (c >= 192 /\ c <= 222 /\ c # 215) THEN c + 32 ELSE c

lower(s) == [k \in 1..Len(s) |-> lower_char(s[k])]

\* The code points str.strip() removes (Latin-1 range).
IsSpace(c) == c \in {9, 10, 11, 12, 13, 28, 29, 30, 31, 32, 133, 160}

RECURSIVE lstrip(_)
lstrip(s) == IF s # <<>> /\ IsSpace(Head(s)) THEN lstrip(Tail(s)) ELSE s

RECURSIVE rstrip(_)
rstrip(s) ==
  IF s # <<>> /\ IsSpace(s[Len(s)]) THEN rstrip(SubSeq(s, 1, Len(s) - 1)) ELSE s

strip(s) == rstrip(lstrip(s))

----------------------------------------------------------------------------
\* stdtrack and strstd (rbdbutil.py:13-37).

IsDigit(c) == c >= CH.zero /\ c <= CH.nine

\* re.match(r'^[0-9][0-9]?[- ]', track)
TrackNoMatch(track) ==
  LET sep(c) == c = CH.hyphen \/ c = CH.space
  IN  \/ Len(track) >= 2 /\ IsDigit(track[1]) /\ sep(track[2])
      \/ Len(track) >= 3 /\ IsDigit(track[1]) /\ IsDigit(track[2]) /\ sep(track[3])

stdtrack(track) ==
  IF TrackNoMatch(track)
    THEN Join(<<CH.space>>, Tail(Split(track, CH.space)))
    ELSE track

\* The replacements of strstd up to and including the accented vowels.
strstd_replaced(s) ==
  LET s1  == Replace(s,   <<CH.apos>>,     <<>>)
      s2  == Replace(s1,  <<CH.apos>>,     <<>>)
      s3  == Replace(s2,  <<CH.amp>>,      <<CH.a, CH.n, CH.d>>)
      s4  == Replace(s3,  <<CH.quest>>,    <<>>)
      s5  == Replace(s4,  <<CH.comma>>,    <<>>)
      s6  == Replace(s5,  <<CH.hyphen>>,   <<>>)
      s7  == Replace(s6,  <<CH.bang>>,     <<>>)
      s8  == Replace(s7,  <<CH.period>>,   <<>>)
      s9  == Replace(s8,  <<CH.backtick>>, <<>>)
      s10 == Replace(s9,  <<CH.space>>,    <<>>)
      s11 == Replace(s10, <<CH.a_acute>>,  <<CH.a>>)
      s12 == Replace(s11, <<CH.e_acute>>,  <<CH.e>>)
      s13 == Replace(s12, <<CH.i_acute>>,  <<CH.i>>)
      s14 == Replace(s13, <<CH.o_acute>>,  <<CH.o>>)
  IN  Replace(s14, <<CH.u_acute>>, <<CH.u>>)

strstd(s) ==
  LET s1 == Replace(strstd_replaced(s), Thirty, <<CH.three, CH.zero>>)
      s2 == IF IndexOf(s1, CH.lparen) # 0 THEN Split(s1, CH.lparen)[1] ELSE s1
  IN  lower(s2)

\* Track.__init__: the key of an (artist, album, title) triple.
TrackKey(artist, album, title) == strstd(artist \o album \o stdtrack(title))

----------------------------------------------------------------------------
\* class RBDB: constants (rbdbutil.py:70-134).

\* None is the empty sequence and a value x that may be None is <<x>>.
None == <<>>

Some(x) == <<x>>

IDX == -1
IDX_ARTIST == 0
IDX_ALBUM == 1
IDX_TITLE == 3
IDX_FILE == 4
IDX_COMPOSER == 5
IDX_COMMENT == 6
IDX_ALBUMARTIST == 7
IDX_GROUPING == 8
IDX_CANONICALARTIST == 12

file_indexes ==
  << IDX, IDX_ARTIST, IDX_ALBUM, IDX_TITLE, IDX_FILE, IDX_COMPOSER,
     IDX_COMMENT, IDX_ALBUMARTIST, IDX_GROUPING, IDX_CANONICALARTIST >>

\* The ten stores, as a set.
Files == {file_indexes[k] : k \in 1..Len(file_indexes)}

\* The nine string-table stores.
TagFiles == Files \ {IDX}

positions ==
  [ ARTIST |-> 0, ALBUM |-> 1, GENRE |-> 2, TITLE |-> 3, FILE |-> 4,
    COMPOSER |-> 5, COMMENT |-> 6, ALBUMARTIST |-> 7, GROUPING |-> 8,
    YEAR |-> 9, DISCNO |-> 10, TRACKNO |-> 11, CANONICALARTIST |-> 12,
    BITRATE |-> 13, LEN |-> 14, PLAYCOUNT |-> 15, RATING |-> 16,
    PLAYTIME |-> 17, LASTPLAYED |-> 18, COMMITID |-> 19, MTIME |-> 20,
    LASTELAPSED |-> 21, LASTOFFSET |-> 22, FLAGS |-> 23 ]

FieldNames == DOMAIN positions

\* "if pos_offset in self.file_indexes" (rbdbutil.py:187).
IsIndirect(field_name) == positions[field_name] \in Files

ENTRY_LEN == 96

\* The first entry's offset: RBDB.__init__ sets cur_offset to 24.
HEADER_LEN == 24

----------------------------------------------------------------------------
\* class RBDB: methods (rbdbutil.py:137-227).

\* hashlib.md5(d).hexdigest(): the digest of the bytes, taken to be free of
\* collisions; a digest is compared with digests only.
md5(d) == <<"md5", d>>

\* RBDB.__init__ taking each checksum before the file's bytes are fed to it.
RBDB_init_HashEmpty(files) ==
  [ datas      |-> files,
    checksums  |-> [i \in Files |-> md5(<<>>)],
    cur_offset |-> HEADER_LEN ]

\* RBDB.__init__: the fields after loading the files.
RBDB_init(files) ==
  [ datas      |-> files,
    checksums  |-> [i \in Files |-> md5(files[i])],
    cur_offset |-> HEADER_LEN ]

\* bytes(s).decode() for sequences of one- and two-byte UTF-8 characters
\* (the modelled files hold no lead byte of a three- or four-byte one).
RECURSIVE Utf8Decode(_)
Utf8Decode(bs) ==
  IF bs = <<>> THEN [ok |-> TRUE, text |-> <<>>]
  ELSE IF bs[1] < 128
    THEN LET rest == Utf8Decode(Tail(bs))
         IN  [ok |-> rest.ok, text |-> <<bs[1]>> \o rest.text]
  ELSE IF bs[1] >= 194 /\ bs[1] <= 223 /\ Len(bs) >= 2
          /\ bs[2] >= 128 /\ bs[2] <= 191
    THEN LET rest == Utf8Decode(SubSeq(bs, 3, Len(bs)))
         IN  [ok |-> rest.ok,
              text |-> <<(bs[1] - 192) * 64 + (bs[2] - 128)>> \o rest.text]
  ELSE [ok |-> FALSE, text |-> <<>>]

\* The bytes of _var before its first zero byte (rbdbutil.py:166-170).
UntilZero(bs) ==
  LET k == IndexOf(bs, 0) IN IF k = 0 THEN bs ELSE SubSeq(bs, 1, k - 1)

\* RBDB._get_string_at_offset: [exc, value].
_get_string_at_offset(d, tagidx, offset) ==
  LET _len == as_int(Slice(d[tagidx], offset, offset + 4))
      _var == Slice(d[tagidx], offset + 8, offset + 8 + _len)
      dec  == Utf8Decode(UntilZero(_var))
  IN  IF dec.ok THEN [exc |-> "none", value |-> dec.text]
      ELSE [exc |-> "UnicodeDecodeError", value |-> None]

\* The value entry() stores for one field: [exc, value].
entry_field(d, entry_offset, pos_name) ==
  LET offset == entry_offset + positions[pos_name] * 4
      raw    == as_int(Slice(d[IDX], offset, offset + 4))
  IN  IF IsIndirect(pos_name)
        THEN _get_string_at_offset(d, positions[pos_name], raw)
        ELSE [exc |-> "none", value |-> raw]

\* RBDB.entry: [exc, values]; values maps "index" and the 24 field names.
entry(d, entry_offset) ==
  IF \E n \in FieldNames :
       IsIndirect(n) /\ entry_field(d, entry_offset, n).exc # "none"
    THEN [exc |-> "UnicodeDecodeError", values |-> None]
    ELSE [exc |-> "none",
          values |-> [n \in FieldNames \cup {"index"} |->
                        IF n = "index" THEN entry_offset
                        ELSE entry_field(d, entry_offset, n).value]]

\* RBDB.EOF
EOF(d, cur) == cur >= Len(d[IDX])

\* The bytes of buf with bs[1..n] stored at offsets offset..offset+n-1.
StoreBytes(buf, offset, bs, n) ==
  [k \in 1..Len(buf) |->
     IF k > offset /\ k <= offset + n THEN bs[k - offset] ELSE buf[k]]

\* update_numeric_field with the field's position taken as its byte offset.
update_numeric_field_Unscaled(d, index, field_name, newvalue) ==
  LET offset == index + positions[field_name]
      room   == Max(0, Min(4, Len(d[IDX]) - offset))
  IN  IF ~as_bytes_fits(newvalue)
        THEN [exc |-> "OverflowError", datas |-> d]
        ELSE [exc   |-> IF room < 4 THEN "IndexError" ELSE "none",
              datas |-> [d EXCEPT ![IDX] =
                           StoreBytes(d[IDX], offset, as_bytes(newvalue), room)]]

\* RBDB.update_numeric_field: [exc, datas].  The loop stores one byte at a
\* time and raises IndexError at the first offset outside the bytearray,
\* leaving the bytes already stored.
update_numeric_field(d, index, field_name, newvalue) ==
  LET offset == index + positions[field_name] * 4
      room   == Max(0, Min(4, Len(d[IDX]) - offset))
  IN  IF ~as_bytes_fits(newvalue)
        THEN [exc |-> "OverflowError", datas |-> d]
        ELSE [exc   |-> IF room < 4 THEN "IndexError" ELSE "none",
              datas |-> [d EXCEPT ![IDX] =
                           StoreBytes(d[IDX], offset, as_bytes(newvalue), room)]]

\* RBDB.get_numeric_field
get_numeric_field(d, index, field_name) ==
  LET offset == index + positions[field_name] * 4
  IN  as_int(Slice(d[IDX], offset, offset + 4))

\* RBDB.update_entry: [exc, datas].  With a playcount the call evaluates
\* self.index, an attribute neither RBDB nor its instances define, which
\* raises AttributeError before update_numeric_field is entered.
update_entry(d, index, playcount, update_playtime) ==
  IF playcount # None
    THEN [exc |-> "AttributeError", datas |-> d]
  ELSE IF update_playtime
    THEN LET pcount       == get_numeric_field(d, index, "PLAYCOUNT")
             _len         == get_numeric_field(d, index, "LEN")
             new_playtime == pcount * _len
         IN  update_numeric_field(d, index, "PLAYTIME", new_playtime)
  ELSE [exc |-> "none", datas |-> d]

\* commit comparing the two hash objects instead of their hexdigests: two
\* objects are never equal.
IsChanged_HashObjects(d, cs, i) == TRUE

\* Whether commit finds store i changed (rbdbutil.py:219-221).
IsChanged(d, cs, i) == cs[i] # md5(d[i])

\* RBDB.commit with RBDB.overwrite: [disk, written].
commit(d, cs, dk, wr) ==
  [ disk    |-> [i \in Files |-> IF IsChanged(d, cs, i) THEN d[i] ELSE dk[i]],
    written |-> wr \cup {i \in Files : IsChanged(d, cs, i)} ]

----------------------------------------------------------------------------
\* class LastFM (rbdbutil.py:230-274).  A row is the (Artist, Album, Track)
\* triple csv.DictReader hands to _parse; data maps a key to its count.

\* LastFM._parse from the rows on.
RECURSIVE LastFM_parse(_, _)
LastFM_parse(rows, data) ==
  IF rows = <<>> THEN data
  ELSE LET artist == lower(strip(rows[1][1]))
           album  == lower(strip(rows[1][2]))
           title  == lower(strip(rows[1][3]))
           key    == TrackKey(artist, album, title)
           next   == IF key \notin DOMAIN data
                       THEN [k \in DOMAIN data \cup {key} |->
                               IF k = key THEN [count |-> 1] ELSE data[k]]
                       ELSE [data EXCEPT ![key].count = @ + 1]
       IN  LastFM_parse(Tail(rows), next)

\* The empty dict.
EmptyDict == [k \in {} |-> [count |-> 0]]

\* LastFM.exists
exists(data, key) == IF key \in DOMAIN data THEN Some(data[key]) ELSE None

----------------------------------------------------------------------------
\* The catalogs and ledgers the model starts from.

\* One record of a string-table file: length, sequence id, payload.
TagRecord(payload) == as_bytes(Len(payload)) \o as_bytes(0) \o payload

\* Payloads of the title table: "1 S", "T", "U-acute" (two UTF-8 bytes) and
\* a byte that is no UTF-8, each closed by a zero byte.
TitlePayloads == << <<49, 32, 83, 0>>, <<84, 0>>, <<195, 154, 0>>, <<255, 0>> >>

\* Offset of the k-th record of the title table.
RECURSIVE TitleOffset(_)
TitleOffset(k) ==
  IF k = 1 THEN 0 ELSE TitleOffset(k - 1) + 8 + Len(TitlePayloads[k - 1])

TagFile(i) ==
  IF i = IDX_ARTIST THEN TagRecord(<<81, 0>>)
  ELSE IF i = IDX_ALBUM THEN TagRecord(<<65, 0>>)
  ELSE IF i = IDX_TITLE
    THEN Concat([k \in 1..Len(TitlePayloads) |-> TagRecord(TitlePayloads[k])])
  ELSE TagRecord(<<0>>)

\* The 96 bytes of an entry: title offset, LEN, PLAYCOUNT and PLAYTIME as
\* given, every other field 0 (artist, album, ... at offset 0 of their table).
EntryBytes(e) ==
  LET val(pos) == IF pos = positions.TITLE THEN e.title
                  ELSE IF pos = positions.LEN THEN 200
                  ELSE IF pos = positions.PLAYCOUNT THEN e.playcount
                  ELSE IF pos = positions.PLAYTIME THEN e.playtime
                  ELSE 0
  IN  Concat([k \in 1..24 |-> as_bytes(val(k - 1))])

\* Header: magic, data size, entry count, serial, commit id, dirty flag.
HeaderBytes(n, extra) ==
  as_bytes(1413695503) \o as_bytes(n * ENTRY_LEN + extra) \o as_bytes(n)
    \o as_bytes(0) \o as_bytes(1) \o as_bytes(0)

\* Bytes left after the last whole entry: none, or a record cut in the
\* middle of its PLAYCOUNT field.
TruncExtras == {0, 62}

\* The index file of the entries es followed by extra bytes of one more.
IndexFile(es, extra) ==
  HeaderBytes(Len(es), extra)
    \o Concat([k \in 1..Len(es) |-> EntryBytes(es[k])])
    \o SubSeq(EntryBytes([title |-> 0, playcount |-> 5, playtime |-> 0]), 1, extra)

CatalogFiles(es, extra) ==
  [i \in Files |-> IF i = IDX THEN IndexFile(es, extra) ELSE TagFile(i)]

\* Entries of the catalogs an import runs over.
ImportEntries ==
  [title : {TitleOffset(1), TitleOffset(2)}, playcount : {0, 5}, playtime : {0, 7}]

\* The k-th entry of the catalogs the RBDB interface is driven over.
ApiEntry(k) ==
  IF k % 2 = 1 THEN [title |-> TitleOffset(1), playcount |-> 5, playtime |-> 0]
               ELSE [title |-> TitleOffset(3), playcount |-> 0, playtime |-> 7]

\* An entry whose title is no UTF-8.
UndecodableEntry == [title |-> TitleOffset(4), playcount |-> 1, playtime |-> 0]

\* The catalogs the RBDB interface is driven over: n entries, then nothing
\* more, a record cut short, or an entry whose title cannot be decoded.
ApiCatalogs ==
  LET es(n) == [k \in 1..n |-> ApiEntry(k)]
  IN  {CatalogFiles(es(n), extra) : n \in 0..MaxEntries, extra \in TruncExtras}
        \cup {CatalogFiles(Append(es(n), UndecodableEntry), 0) : n \in 0..MaxEntries - 1}

\* Ledger rows: " Q;A;2 S" has the key "qas" and "Q;A;X" the key "qax".
LedgerRows ==
  { << <<32, 81>>, <<65>>, <<50, 32, 83>> >>,
    << <<81>>, <<65>>, <<88>> >> }

NoCall == [op |-> "none", index |-> 0, field |-> "", value |-> 0]

NoResult == [exc |-> "none", value |-> None]

Snapshot == [datas |-> datas, cur_offset |-> cur_offset,
             done |-> done, missing |-> missing]

NormIdle == [phase |-> "idle", inp |-> <<>>, out |-> <<>>, prev |-> <<>>]

\* The ledgers LastFM builds from at most MaxRows rows.
Ledgers == {LastFM_parse(rows, EmptyDict) : rows \in SeqsUpTo(LedgerRows, MaxRows)}

\* The catalogs an import runs over.
ImportCatalogs ==
  {CatalogFiles(es, extra) : es \in SeqsUpTo(ImportEntries, MaxEntries),
                             extra \in TruncExtras}

\* rbdb = RBDB(args.dbdir) over the files; lastfm.data = data.
Loaded(files, data, start) ==
  LET r == RBDB_init(files)
  IN  /\ disk = files
      /\ datas = r.datas
      /\ checksums = r.checksums
      /\ cur_offset = r.cur_offset
      /\ lastfm = data
      /\ done = 0
      /\ missing = 0
      /\ pc = start
      /\ loaded = files
      /\ pre = [datas |-> r.datas, cur_offset |-> r.cur_offset,
                done |-> 0, missing |-> 0]
      /\ call = NoCall
      /\ result = NoResult
      /\ written = {}
      /\ nupdates = 0
      /\ norm = NormIdle

----------------------------------------------------------------------------
\* The RBDB interface, called in any order on a loaded database.

Init == \E files \in ApiCatalogs : Loaded(files, EmptyDict, "api")

\* Offsets a caller passes as an entry's index: every record start up to
\* the end of the index buffer (the last may be cut short or lie at the end).
EntryOffsets ==
  {HEADER_LEN + ENTRY_LEN * k : k \in 0..((Len(datas[IDX]) - HEADER_LEN) \div ENTRY_LEN)}

\* (field, value) pairs given to update_numeric_field.
\* Offsets a caller reads at: the first record and the last record start.
ReadOffsets ==
  {HEADER_LEN,
   HEADER_LEN + ENTRY_LEN * ((Len(datas[IDX]) - HEADER_LEN) \div ENTRY_LEN)}

UpdateInputs ==
  { <<"PLAYCOUNT", 7>>, <<"FLAGS", 16909060>> }

Unchanged_db == UNCHANGED <<disk, datas, checksums, cur_offset, written, nupdates>>

Unchanged_other == UNCHANGED <<lastfm, done, missing, pc, loaded, norm>>

\* entry = rbdb.next_entry(), called as the source's loops do: while not EOF().
NextEntry ==
  /\ pc = "api"
  /\ ~EOF(datas, cur_offset)
  /\ \E e \in {entry(datas, cur_offset)} :
       /\ cur_offset' = IF e.exc = "none" THEN cur_offset + ENTRY_LEN ELSE cur_offset
       /\ result' = [exc |-> e.exc, value |-> e.values]
  /\ pre' = Snapshot
  /\ call' = [op |-> "next_entry", index |-> cur_offset, field |-> "", value |-> 0]
  /\ UNCHANGED <<disk, datas, checksums, written, nupdates>>
  /\ Unchanged_other

\* rbdb.entry(entry_offset)
Entry ==
  /\ pc = "api"
  /\ \E entry_offset \in ReadOffsets :
       \E e \in {entry(datas, entry_offset)} :
           /\ result' = [exc |-> e.exc, value |-> e.values]
           /\ call' = [op |-> "entry", index |-> entry_offset, field |-> "", value |-> 0]
  /\ pre' = Snapshot
  /\ Unchanged_db
  /\ Unchanged_other

\* rbdb.get_numeric_field(index, field_name)
GetNumericField ==
  /\ pc = "api"
  /\ \E index \in ReadOffsets, field_name \in {"PLAYTIME"} :
       /\ result' = [exc |-> "none", value |-> get_numeric_field(datas, index, field_name)]
       /\ call' = [op |-> "get_numeric_field", index |-> index,
                   field |-> field_name, value |-> 0]
  /\ pre' = Snapshot
  /\ Unchanged_db
  /\ Unchanged_other

\* rbdb.update_numeric_field(index, field_name, newvalue)
UpdateNumericField ==
  /\ pc = "api"
  /\ nupdates < MaxUpdates
  /\ \E index \in EntryOffsets, fv \in UpdateInputs :
       \E r \in {update_numeric_field(datas, index, fv[1], fv[2])} :
           /\ datas' = r.datas
           /\ result' = [exc |-> r.exc, value |-> None]
           /\ call' = [op |-> "update_numeric_field", index |-> index,
                       field |-> fv[1], value |-> fv[2]]
  /\ pre' = Snapshot
  /\ nupdates' = nupdates + 1
  /\ UNCHANGED <<disk, checksums, cur_offset, written>>
  /\ Unchanged_other

\* (playcount, update_playtime) pairs given to update_entry.
UpdateEntryInputs == { <<None, TRUE>>, <<Some(9), TRUE>> }

\* rbdb.update_entry(index, playcount=..., update_playtime=...)
UpdateEntry ==
  /\ pc = "api"
  /\ nupdates < MaxUpdates
  /\ \E index \in EntryOffsets, a \in UpdateEntryInputs :
       \E r \in {update_entry(datas, index, a[1], a[2])} :
           /\ datas' = r.datas
           /\ result' = [exc |-> r.exc, value |-> None]
           /\ call' = [op |-> IF a[2] THEN "update_entry_playtime" ELSE "update_entry",
                       index |-> index, field |-> "", value |-> a[1]]
  /\ pre' = Snapshot
  /\ nupdates' = nupdates + 1
  /\ UNCHANGED <<disk, checksums, cur_offset, written>>
  /\ Unchanged_other

\* rbdb.commit()
Commit ==
  /\ pc = "api"
  /\ \E c \in {commit(datas, checksums, disk, written)} :
       /\ disk' = c.disk
       /\ written' = c.written
  /\ result' = NoResult
  /\ call' = [op |-> "commit", index |-> 0, field |-> "", value |-> 0]
  /\ pre' = Snapshot
  /\ UNCHANGED <<datas, checksums, cur_offset, nupdates>>
  /\ Unchanged_other

Next ==
  \/ NextEntry
  \/ Entry
  \/ GetNumericField
  \/ UpdateNumericField
  \/ UpdateEntry
  \/ Commit

Spec == Init /\ [][Next]_vars

----------------------------------------------------------------------------
\* The main program with --import-counts (rbdbutil.py:319-342).  An uncaught
\* exception ends the process: pc becomes "crashed" and nothing more runs.

\* Lines 326-336: the branch of an entry found in the ledger;
\* [exc, datas, done, missing], the last two being the counters' increments.
ImportMatched(d, e, lastfm_entry) ==
  LET entry_playcount  == e.PLAYCOUNT
      lastfm_playcount == lastfm_entry.count
      r1 == IF lastfm_playcount > entry_playcount
              THEN update_entry(d, e.index, Some(lastfm_entry.count), FALSE)
              ELSE [exc |-> "none", datas |-> d]
      r2 == IF r1.exc # "none" THEN r1
            ELSE IF e.PLAYCOUNT > 0 /\ e.PLAYTIME = 0
              THEN update_entry(r1.datas, e.index, None, TRUE)
              ELSE r1
  IN  [exc |-> r2.exc, datas |-> r2.datas,
       done |-> IF r2.exc = "none" THEN 1 ELSE 0, missing |-> 0]

\* The else branch with "done += 1" left outside the if.
ImportMissing_CountsDone(d) ==
  [exc |-> "none", datas |-> d, done |-> 1, missing |-> 1]

\* Lines 337-338: the branch of an entry the ledger does not hold.
ImportMissing(d) == [exc |-> "none", datas |-> d, done |-> 0, missing |-> 1]

\* Track.from_rbdb_entry(entry).key
EntryKey(e) == TrackKey(e.ARTIST, e.ALBUM, e.TITLE)

\* The names the module namespace binds when line 340 runs (with builtins,
\* none of which is called ok or ko).
ModuleNames ==
  { "sys", "csv", "struct", "re", "hashlib", "argparse", "as_int", "as_bytes",
    "stdtrack", "strstd", "Track", "RBDB", "LastFM", "parser", "args", "rbdb",
    "lastfm", "done", "missing", "entry", "track", "lastfm_entry",
    "entry_playcount", "lastfm_playcount" }

InitImport ==
  \E files \in ImportCatalogs, data \in Ledgers : Loaded(files, data, "import")

\* Lines 324-338 for the decoded entry e: [exc, datas, done, missing].
ImportEntry(d, e, data) ==
  LET found == exists(data, EntryKey(e))
  IN  IF found # None THEN ImportMatched(d, e, found[1]) ELSE ImportMissing(d)

\* One turn of the loop at lines 322-338.
ImportStep ==
  /\ pc = "import"
  /\ ~EOF(datas, cur_offset)
  /\ \E e \in {entry(datas, cur_offset)} :
       IF e.exc # "none"
         THEN /\ pc' = "crashed"
              /\ result' = [exc |-> e.exc, value |-> None]
              /\ UNCHANGED <<datas, cur_offset, done, missing>>
         ELSE \E r \in {ImportEntry(datas, e.values, lastfm)} :
                /\ cur_offset' = cur_offset + ENTRY_LEN
                /\ datas' = r.datas
                /\ done' = done + r.done
                /\ missing' = missing + r.missing
                /\ pc' = IF r.exc = "none" THEN "import" ELSE "crashed"
                /\ result' = [exc |-> r.exc, value |-> None]
  /\ pre' = Snapshot
  /\ call' = [op |-> "import_step", index |-> cur_offset, field |-> "", value |-> 0]
  /\ UNCHANGED <<disk, checksums, written, nupdates, lastfm, loaded, norm>>

\* Lines 340-342, reached when EOF() holds: the print names ok and ko.
ImportFinish ==
  /\ pc = "import"
  /\ EOF(datas, cur_offset)
  /\ IF {"ok", "ko"} \subseteq ModuleNames
       THEN \E c \in {commit(datas, checksums, disk, written)} :
                /\ disk' = c.disk
                /\ written' = c.written
                /\ pc' = "exit"
                /\ result' = NoResult
       ELSE /\ pc' = "crashed"
            /\ result' = [exc |-> "NameError", value |-> None]
            /\ UNCHANGED <<disk, written>>
  /\ pre' = Snapshot
  /\ call' = [op |-> "import_finish", index |-> cur_offset, field |-> "", value |-> 0]
  /\ UNCHANGED <<datas, checksums, cur_offset, done, missing, nupdates,
                 lastfm, loaded, norm>>

NextImport ==
  \/ ImportStep
  \/ ImportFinish

SpecImport == InitImport /\ [][NextImport]_vars

----------------------------------------------------------------------------
\* stdtrack and strstd applied to bounded inputs.

\* Titles: every string of at most MaxTitleLen of "1", "-", " " and "S".
Titles == SeqsUpTo({49, CH.hyphen, CH.space, 83}, MaxTitleLen)

\* Pieces the strings given to strstd are made of: a, A, the accented a in
\* both cases, a digit, &, ', space, -, ( and ), "Thirty", "Thi" and "rty".
Tokens ==
  { <<CH.a>>, <<65>>, <<CH.a_acute>>, <<193>>, <<CH.three>>, <<CH.amp>>,
    <<CH.apos>>, <<CH.space>>, <<CH.hyphen>>, <<CH.lparen>>, <<CH.rparen>>,
    Thirty, <<CH.T, CH.h, CH.i>>, <<CH.r, CH.t, CH.y>> }

Texts == {Concat(ts) : ts \in SeqsUpTo(Tokens, MaxTokens)}

Idle(n) ==
  /\ disk = <<>> /\ datas = <<>> /\ checksums = <<>> /\ cur_offset = 0
  /\ lastfm = EmptyDict /\ done = 0 /\ missing = 0 /\ pc = "norm"
  /\ loaded = <<>> /\ pre = <<>> /\ call = NoCall /\ result = NoResult
  /\ written = {} /\ nupdates = 0
  /\ norm = n

Unchanged_catalog ==
  UNCHANGED <<disk, datas, checksums, cur_offset, lastfm, done, missing, pc,
              loaded, pre, call, result, written, nupdates>>

InitNorm ==
  \/ \E t \in Titles : Idle([phase |-> "title", inp |-> t, out |-> <<>>, prev |-> <<>>])
  \/ \E s \in Texts : Idle([phase |-> "text", inp |-> s, out |-> <<>>, prev |-> <<>>])

\* out = stdtrack(title)
ApplyStdtrack ==
  /\ norm.phase = "title"
  /\ norm' = [norm EXCEPT !.phase = "stdtrack", !.out = stdtrack(norm.inp)]
  /\ Unchanged_catalog

\* out = strstd(s)
ApplyStrstd ==
  /\ norm.phase = "text"
  /\ norm' = [norm EXCEPT !.phase = "strstd", !.out = strstd(norm.inp)]
  /\ Unchanged_catalog

\* out = strstd(out), the result of the first pass kept in prev.
ApplyStrstdAgain ==
  /\ norm.phase = "strstd"
  /\ norm' = [norm EXCEPT !.phase = "strstd2", !.prev = norm.out,
                          !.out = strstd(norm.out)]
  /\ Unchanged_catalog

NextNorm ==
  \/ ApplyStdtrack
  \/ ApplyStrstd
  \/ ApplyStrstdAgain

SpecNorm == InitNorm /\ [][NextNorm]_vars

----------------------------------------------------------------------------
\* Properties.

\* Offsets of the whole 96-byte entries of an index buffer.
WholeEntries(buf) ==
  {HEADER_LEN + ENTRY_LEN * (k - 1) : k \in 1..((Len(buf) - HEADER_LEN) \div ENTRY_LEN)}

\* The import run has ended, by exit or by an uncaught exception.
Ended == pc \in {"exit", "crashed"}

\* The key of the entry at offset o as loaded, and its ledger count (0: none).
KeyAt(o) == EntryKey(entry(loaded, o).values)

LedgerCount(o) == IF KeyAt(o) \in DOMAIN lastfm THEN lastfm[KeyAt(o)].count ELSE 0

\* The entry at o is whole, decodable, in the ledger and was taken by the loop.
MatchedAndProcessed(o) ==
  /\ o \in WholeEntries(loaded[IDX])
  /\ o < cur_offset
  /\ KeyAt(o) \in DOMAIN lastfm

\* C1: after an import run every matched entry's stored PLAYCOUNT is at least
\* its value at load and equals max(value at load, ledger count).
C1_MonotonicPlaycount ==
  Ended =>
    \A o \in WholeEntries(loaded[IDX]) :
      MatchedAndProcessed(o) =>
        LET orig == get_numeric_field(loaded, o, "PLAYCOUNT")
            now  == get_numeric_field(datas, o, "PLAYCOUNT")
        IN  now >= orig /\ now = Max(orig, LedgerCount(o))

\* C2: after an import run every matched entry whose PLAYTIME was 0 at load
\* and whose PLAYCOUNT after the play-count step, max(value at load, ledger
\* count), is positive holds PLAYTIME = that PLAYCOUNT * LEN.
C2_PlaytimeRecompute ==
  Ended =>
    \A o \in WholeEntries(loaded[IDX]) :
      LET merged == Max(get_numeric_field(loaded, o, "PLAYCOUNT"), LedgerCount(o))
      IN  ( /\ MatchedAndProcessed(o)
            /\ get_numeric_field(loaded, o, "PLAYTIME") = 0
            /\ merged > 0 )
          => get_numeric_field(datas, o, "PLAYTIME")
               = merged * get_numeric_field(loaded, o, "LEN")

\* The last step was a turn of the import loop over a decodable entry whose
\* key the ledger does not hold.
MissingStep ==
  /\ call.op = "import_step"
  /\ entry(pre.datas, call.index).exc = "none"
  /\ EntryKey(entry(pre.datas, call.index).values) \notin DOMAIN lastfm

\* C3: a turn of the import loop over an entry whose key is not in the ledger
\* adds exactly one to missing, leaves done as it was and changes no byte of
\* any store buffer.
C3_MissingMatch ==
  MissingStep =>
    /\ missing = pre.missing + 1
    /\ done = pre.done
    /\ datas = pre.datas

\* C3's case: a missing entry met after a matched one, with a ledger at hand.
C3_Witness ==
  /\ MissingStep
  /\ DOMAIN lastfm # {}
  /\ done = 1
  /\ missing = 1

\* C4: as long as no update call was made, every store's hash equals the
\* fingerprint taken at load and commit has written no file.
C4_RoundTrip ==
  nupdates = 0 =>
    /\ \A i \in Files : md5(datas[i]) = checksums[i]
    /\ written = {}
    /\ disk = loaded

\* C4's case: commit called after iterating, with no update in between.
C4_Witness ==
  /\ call.op = "commit"
  /\ nupdates = 0
  /\ cur_offset > HEADER_LEN

\* The last call was update_numeric_field on a non-indirect field with a
\* 32-bit value whose 4-byte slot lies inside the index buffer.
InBoundsUpdate ==
  /\ call.op = "update_numeric_field"
  /\ ~IsIndirect(call.field)
  /\ call.value >= 0
  /\ call.index + positions[call.field] * 4 + 4 <= Len(pre.datas[IDX])

\* C5: such a call leaves the slot holding the little-endian bytes of the
\* value and every other byte of the index buffer, its length and all
\* string-table buffers as they were.
C5_FieldIsolation ==
  InBoundsUpdate =>
    LET slot == call.index + positions[call.field] * 4
        byte(j) == IF j = 0 THEN call.value % 256
                   ELSE IF j = 1 THEN (call.value \div 256) % 256
                   ELSE IF j = 2 THEN (call.value \div 65536) % 256
                   ELSE (call.value \div 16777216) % 256
    IN  /\ Len(datas[IDX]) = Len(pre.datas[IDX])
        /\ \A k \in 1..Len(datas[IDX]) :
             datas[IDX][k] = IF k > slot /\ k <= slot + 4 THEN byte(k - slot - 1)
                             ELSE pre.datas[IDX][k]
        /\ \A i \in TagFiles : datas[i] = pre.datas[i]

\* C5's case: a value of four different bytes stored into a slot.
C5_Witness ==
  /\ InBoundsUpdate
  /\ call.value = 16909060
  /\ datas # pre.datas

\* C6: next_entry called with the cursor before the end of the index buffer
\* and fewer than 96 bytes left fails with an out-of-bounds error (Python's
\* IndexError) and returns no entry.
C6_TruncatedRecord ==
  ( /\ call.op = "next_entry"
    /\ call.index < Len(pre.datas[IDX])
    /\ Len(pre.datas[IDX]) - call.index < ENTRY_LEN )
  => result.exc = "IndexError"

\* The title t without its track-number prefix, as C7 words it: one or two
\* digits, then " - ", "-" or " ", are dropped and the rest is kept whole.
StripTrackNo(t) ==
  LET digits == IF Len(t) >= 2 /\ IsDigit(t[1]) /\ IsDigit(t[2]) THEN 2 ELSE 1
      rest   == SubSeq(t, digits + 1, Len(t))
  IN  IF StartsWith(rest, <<CH.space, CH.hyphen, CH.space>>)
        THEN SubSeq(rest, 4, Len(rest))
        ELSE Tail(rest)

\* C7: stdtrack returns the rest of a title after its track-number prefix and
\* separator, and returns any other title unchanged.
C7_TrackNumberStripping ==
  norm.phase = "stdtrack" =>
    norm.out = IF TrackNoMatch(norm.inp) THEN StripTrackNo(norm.inp) ELSE norm.inp

\* C8: strstd(strstd(s)) = strstd(s).
C8_Idempotence == norm.phase = "strstd2" => norm.out = norm.prev

\* C9: an import over a well-formed catalog whose cursor has reached the end
\* goes on to commit: it exits without an exception, done + missing is the
\* number of entries and the index file holds the index buffer.
C9_ImportReachesCommit ==
  ( /\ call.op = "import_finish"
    /\ (Len(loaded[IDX]) - HEADER_LEN) % ENTRY_LEN = 0 )
  => /\ pc = "exit"
     /\ done + missing = (Len(loaded[IDX]) - HEADER_LEN) \div ENTRY_LEN
     /\ disk[IDX] = datas[IDX]

\* C10: every string-table buffer is as loaded, its hash equals its
\* fingerprint, and commit has written no file but the index file.
C10_OnlyIndexMutated ==
  /\ \A i \in TagFiles :
       /\ datas[i] = loaded[i]
       /\ md5(datas[i]) = checksums[i]
       /\ disk[i] = loaded[i]
  /\ written \subseteq {IDX}

\* C10's case: commit has rewritten the index file after an update.
C10_Witness ==
  /\ call.op = "commit"
  /\ IDX \in written
  /\ nupdates > 0

====
